---- MODULE Spec2Model ----
(***************************************************************************)
(* Model of the Obsidian Checkbox Sorter plugin (src/main.ts).             *)
(*                                                                         *)
(* Text is a sequence of one-character strings; the two marker literals    *)
(* are single tokens of that alphabet.  A document is the sequence of its  *)
(* lines (the editor's line buffer); line numbers are 0-based as in the    *)
(* code, so getLine(d, i) is d[i + 1].                                     *)
(***************************************************************************)
EXTENDS Integers, Sequences, FiniteSets, TLC

VARIABLES doc, enableGlobalCheckboxSort, frontmatter, last

vars == <<doc, enableGlobalCheckboxSort, frontmatter, last>>

\* ------------------------------------------------------------------ bounds
MaxLines == 3

\* ------------------------------------------------------------- characters
NL == "\n"

IsSpace(c) == c \in {" ", "\t", NL}

IsBullet(c) == c \in {"-", "*", "+"}

enableMarker == <<"%%checkbox-sort: true%%">>

disableMarker == <<"%%checkbox-sort: false%%">>

uncheckedBox == <<"[", " ", "]">>

checkedBox == <<"[", "x", "]">>

\* ---------------------------------------------------- string primitives
\* String.prototype.trim
RECURSIVE trimStart(_)
trimStart(s) ==
    IF s # <<>> /\ IsSpace(Head(s)) THEN trimStart(Tail(s)) ELSE s

RECURSIVE trimEnd(_)
trimEnd(s) ==
    IF s # <<>> /\ IsSpace(s[Len(s)]) THEN trimEnd(SubSeq(s, 1, Len(s) - 1)) ELSE s

trim(s) == trimEnd(trimStart(s))

\* 1-based index of the first occurrence of pat in s, 0 when there is none
indexOf(s, pat) ==
    LET hits == {i \in 1..(Len(s) - Len(pat) + 1) : SubSeq(s, i, i + Len(pat) - 1) = pat}
    IN  IF hits = {} THEN 0 ELSE CHOOSE i \in hits : \A j \in hits : i <= j

\* String.prototype.includes
includes(s, pat) == indexOf(s, pat) # 0

\* String.prototype.replace with a string pattern: the first occurrence only
replace(s, pat, rep) ==
    LET i == indexOf(s, pat)
    IN  IF i = 0 THEN s
        ELSE SubSeq(s, 1, i - 1) \o rep \o SubSeq(s, i + Len(pat), Len(s))

endsWithNewline(s) == s # <<>> /\ s[Len(s)] = NL

\* String.prototype.split('\n')
RECURSIVE split(_)
split(s) ==
    LET i == indexOf(s, <<NL>>)
    IN  IF i = 0 THEN <<s>>
        ELSE <<SubSeq(s, 1, i - 1)>> \o split(SubSeq(s, i + 1, Len(s)))

\* Array.prototype.join('\n')
RECURSIVE join(_)
join(ls) ==
    IF ls = <<>> THEN <<>>
    ELSE IF Len(ls) = 1 THEN ls[1]
    ELSE ls[1] \o <<NL>> \o join(Tail(ls))

\* Array.prototype.join('')
RECURSIVE concat(_)
concat(ts) ==
    IF ts = <<>> THEN <<>> ELSE Head(ts) \o concat(Tail(ts))

\* --------------------------------------------------------- line grammar
\* line.match(/^\s*/)[0].length
RECURSIVE getIndentationLevel(_)
getIndentationLevel(line) ==
    IF line # <<>> /\ IsSpace(Head(line)) THEN 1 + getIndentationLevel(Tail(line)) ELSE 0

\* /^\s*[-*+]\s+/.test(line)
listItemRegex(line) ==
    LET n == getIndentationLevel(line)
    IN  /\ Len(line) >= n + 2
        /\ IsBullet(line[n + 1])
        /\ IsSpace(line[n + 2])

\* /^\s*[-*+]\s+\[x\]/.test(line)
tickedCheckboxRegex(line) ==
    /\ listItemRegex(line)
    /\ LET n    == getIndentationLevel(line)
           rest == SubSeq(line, n + 2, Len(line))
           m    == getIndentationLevel(rest)
       IN  Len(rest) >= m + 3 /\ SubSeq(rest, m + 1, m + 3) = checkedBox

\* ------------------------------------------------------- editor buffer
lineCount(d) == Len(d)

getLine(d, i) == d[i + 1]

\* the buffer as one text: its lines joined by newlines
docText(d) == join(d)

\* character offset of the position {line, ch}
RECURSIVE offsetOf(_, _, _)
offsetOf(d, line, ch) ==
    IF line = 0 THEN ch
    ELSE Len(d[1]) + 1 + offsetOf(Tail(d), line - 1, ch)

getRange(d, from, to) ==
    SubSeq(docText(d), offsetOf(d, from.line, from.ch) + 1, offsetOf(d, to.line, to.ch))

\* editor.transaction({changes: [{from, to, text}]}): one atomic replacement
applyChange(d, change) ==
    LET t == docText(d)
        a == offsetOf(d, change.from.line, change.from.ch)
        b == offsetOf(d, change.to.line, change.to.ch)
    IN  split(SubSeq(t, 1, a) \o change.text \o SubSeq(t, b + 1, Len(t)))

RECURSIVE transaction(_, _)
transaction(d, changes) ==
    IF changes = <<>> THEN d
    ELSE transaction(applyChange(d, Head(changes)), Tail(changes))

\* ------------------------------------------------ configuration layers
FrontmatterValues == {"undefined", "true", "false", "string"}

\* frontmatter['checkbox-sort'] !== undefined && typeof ... === 'boolean'
fileLevelSortingEnabled(global, fm) ==
    IF fm # "undefined" /\ fm \in {"true", "false"} THEN fm = "true" ELSE global

\* the upward scan for a list marker: "true", "false" or "null"
RECURSIVE listMarkerFound(_, _)
listMarkerFound(d, scanLineNum) ==
    IF scanLineNum < 0 THEN "null"
    ELSE LET lineContent == trim(getLine(d, scanLineNum))
         IN  IF includes(lineContent, enableMarker) THEN "true"
             ELSE IF includes(lineContent, disableMarker) THEN "false"
             ELSE IF ~listItemRegex(lineContent) THEN "null"
             ELSE listMarkerFound(d, scanLineNum - 1)

effectiveSortingEnabled(fileLevel, marker) ==
    IF marker # "null" THEN marker = "true" ELSE fileLevel

\* ------------------------------------------------- tree boundary scans
\* the bug of scanning on past a shallower item
RECURSIVE scanUpPastShallower(_, _, _, _)
scanUpPastShallower(d, i, currentIndent, blockStartLine) ==
    IF i < 0 THEN blockStartLine
    ELSE IF ~listItemRegex(getLine(d, i)) THEN blockStartLine
    ELSE IF getIndentationLevel(getLine(d, i)) = currentIndent
    THEN scanUpPastShallower(d, i - 1, currentIndent, i)
    ELSE scanUpPastShallower(d, i - 1, currentIndent, blockStartLine)

\* Scan Up: the first peer of the clicked line's group
RECURSIVE scanUp(_, _, _, _)
scanUp(d, i, currentIndent, blockStartLine) ==
    IF i < 0 THEN blockStartLine
    ELSE LET line   == getLine(d, i)
             indent == getIndentationLevel(line)
         IN  IF ~listItemRegex(line) THEN blockStartLine
             ELSE IF indent = currentIndent THEN scanUp(d, i - 1, currentIndent, i)
             ELSE IF indent < currentIndent THEN blockStartLine
             ELSE scanUp(d, i - 1, currentIndent, blockStartLine)

\* Scan Down: the last peer of the clicked line's group
RECURSIVE scanDown(_, _, _, _)
scanDown(d, i, currentIndent, blockEndLine) ==
    IF i >= lineCount(d) THEN blockEndLine
    ELSE LET line   == getLine(d, i)
             indent == getIndentationLevel(line)
         IN  IF ~listItemRegex(line) THEN blockEndLine
             ELSE IF indent = currentIndent THEN scanDown(d, i + 1, currentIndent, i)
             ELSE IF indent < currentIndent THEN blockEndLine
             ELSE scanDown(d, i + 1, currentIndent, blockEndLine)

\* the end of the tree of the peer at line i
RECURSIVE peerTreeEndLine(_, _, _, _)
peerTreeEndLine(d, j, currentPeerIndent, endLine) ==
    IF j >= lineCount(d) THEN endLine
    ELSE LET descLineText == getLine(d, j)
             descIndent   == getIndentationLevel(descLineText)
         IN  IF ~listItemRegex(descLineText) \/ descIndent <= currentPeerIndent
             THEN endLine
             ELSE peerTreeEndLine(d, j + 1, currentPeerIndent, j)

\* the bug of a range that ends at the last peer, without its children
overallBlockEndLineAtLastPeer(d, i, currentIndent, endLine) == endLine

\* the end of the whole structure to replace
RECURSIVE overallBlockEndLine(_, _, _, _)
overallBlockEndLine(d, i, currentIndent, endLine) ==
    IF i >= lineCount(d) THEN endLine
    ELSE LET line   == getLine(d, i)
             indent == getIndentationLevel(line)
         IN  IF ~listItemRegex(line) \/ indent < currentIndent THEN endLine
             ELSE overallBlockEndLine(d, i + 1, currentIndent, i)

\* ------------------------------------------- partition-and-rewrite engine
\* lines k..endLine, each followed by a newline unless it is the last line of the file
RECURSIVE peerTreeText(_, _, _)
peerTreeText(d, k, endLine) ==
    IF k > endLine THEN <<>>
    ELSE getLine(d, k) \o (IF k = lineCount(d) - 1 THEN <<>> ELSE <<NL>>)
         \o peerTreeText(d, k + 1, endLine)

\* the clicked item's block with its first line carrying the new state
updatedClickedText(text, isNowTicked) ==
    LET lines == split(text)
        first == IF isNowTicked THEN replace(lines[1], uncheckedBox, checkedBox)
                 ELSE replace(lines[1], checkedBox, uncheckedBox)
    IN  join(<<first>> \o Tail(lines))

\* the bug of classifying the clicked item by the state it has before the click
isPeerTickedByCurrentState(d, i, clickedLineNumber, isNowTicked) ==
    tickedCheckboxRegex(getLine(d, i))

isPeerTickedForSorting(d, i, clickedLineNumber, isNowTicked) ==
    IF i = clickedLineNumber THEN isNowTicked ELSE tickedCheckboxRegex(getLine(d, i))

\* one peer of the loop: its tree, its text and the list it joins
peerItem(d, i, endLine, clickedLineNumber, isNowTicked) ==
    [text |-> IF i = clickedLineNumber
              THEN updatedClickedText(peerTreeText(d, i, endLine), isNowTicked)
              ELSE peerTreeText(d, i, endLine),
     originalLine |-> i]

pushItem(acc, isTicked, itemData) ==
    IF isTicked THEN [acc EXCEPT !.ticked = Append(@, itemData)]
    ELSE [acc EXCEPT !.unticked = Append(@, itemData)]

\* the peer loop: the two lists of item data
RECURSIVE collectPeers(_, _, _, _, _, _, _)
RECURSIVE collectFrom(_, _, _, _, _, _, _, _)
collectFrom(d, i, endLine, blockEndLine, clickedLineNumber, currentIndent, isNowTicked, acc) ==
    collectPeers(d, endLine + 1, blockEndLine, clickedLineNumber, currentIndent, isNowTicked,
                 pushItem(acc, isPeerTickedForSorting(d, i, clickedLineNumber, isNowTicked),
                          peerItem(d, i, endLine, clickedLineNumber, isNowTicked)))

collectPeers(d, i, blockEndLine, clickedLineNumber, currentIndent, isNowTicked, acc) ==
    IF i > blockEndLine THEN acc
    ELSE IF \/ ~listItemRegex(getLine(d, i))
            \/ getIndentationLevel(getLine(d, i)) # currentIndent
    THEN collectPeers(d, i + 1, blockEndLine, clickedLineNumber, currentIndent,
                      isNowTicked, acc)
    ELSE collectFrom(d, i, peerTreeEndLine(d, i + 1, getIndentationLevel(getLine(d, i)), i),
                     blockEndLine, clickedLineNumber, currentIndent, isNowTicked, acc)

itemTexts(items) == [k \in 1..Len(items) |-> items[k].text]

finalBlockText(untickedItemsData, tickedItemsData) ==
    concat(itemTexts(untickedItemsData)) \o concat(itemTexts(tickedItemsData))

\* the bug of a range that takes the line after the structure with it
deleteToNextLineEnd(d, overallEnd) ==
    IF overallEnd = lineCount(d) - 1
    THEN [line |-> overallEnd, ch |-> Len(getLine(d, overallEnd))]
    ELSE [line |-> overallEnd + 1, ch |-> Len(getLine(d, overallEnd + 1))]

deleteTo(d, overallEnd) ==
    IF overallEnd = lineCount(d) - 1
    THEN [line |-> overallEnd, ch |-> Len(getLine(d, overallEnd))]
    ELSE [line |-> overallEnd + 1, ch |-> 0]

\* the bug of inserting the final text as it is
textToInsertAsIs(finalText, overallEnd, totalLines) == finalText

textToInsert(finalText, overallEnd, totalLines) ==
    LET t1 == IF ~endsWithNewline(finalText) /\ overallEnd < totalLines - 1
              THEN finalText \o <<NL>> ELSE finalText
    IN  IF endsWithNewline(t1) /\ overallEnd = totalLines - 1
        THEN SubSeq(t1, 1, Len(t1) - 1) ELSE t1

\* the result of a click that stops before the peer loop
noSort(outcome, fileLevel, marker, enabled) ==
    [outcome |-> outcome, fileLevel |-> fileLevel, listMarkerFound |-> marker,
     effectiveSortingEnabled |-> enabled,
     blockStartLine |-> -1, blockEndLine |-> -1, overallBlockEndLine |-> -1,
     untickedItemsData |-> <<>>, tickedItemsData |-> <<>>,
     textToInsert |-> <<>>, changes |-> <<>>]

\* Step 4: the transaction, unless the text is unchanged
performTransaction(failure, blockStartLine, blockEndLine, overallEnd, lists, deleteFrom, to, insert, unchanged) ==
    [outcome |-> IF unchanged THEN "noChange"
                 ELSE IF failure = "replace" THEN "error"
                 ELSE "replaced",
     fileLevel |-> TRUE, listMarkerFound |-> "null", effectiveSortingEnabled |-> TRUE,
     blockStartLine |-> blockStartLine, blockEndLine |-> blockEndLine,
     overallBlockEndLine |-> overallEnd,
     untickedItemsData |-> lists.unticked, tickedItemsData |-> lists.ticked,
     textToInsert |-> insert,
     changes |-> IF unchanged \/ failure = "replace" THEN <<>>
                 ELSE <<[from |-> deleteFrom, to |-> to, text |-> insert]>>]

\* the bug of a short-circuit that never fires
alwaysReplace(insert, originalBlockText) == FALSE

\* textToInsert.trim() === originalBlockText.trim()
noChangesNeeded(insert, originalBlockText) ==
    trim(insert) = trim(originalBlockText)

compareWithOriginal(d, failure, blockStartLine, blockEndLine, overallEnd, lists, deleteFrom, to, insert) ==
    performTransaction(failure, blockStartLine, blockEndLine, overallEnd, lists,
        deleteFrom, to, insert,
        noChangesNeeded(insert, getRange(d, deleteFrom, to)))

\* Step 3: the final text and the replacement range
prepareReplacement(d, failure, blockStartLine, blockEndLine, overallEnd, lists) ==
    compareWithOriginal(d, failure, blockStartLine, blockEndLine, overallEnd, lists,
        [line |-> blockStartLine, ch |-> 0],
        deleteTo(d, overallEnd),
        textToInsert(finalBlockText(lists.unticked, lists.ticked), overallEnd, lineCount(d)))

\* Step 2: the peers between the boundaries, sorted into the two lists
sortPeerBlock(d, clickedLineNumber, failure, currentIndent, isNowTicked, blockStartLine, blockEndLine) ==
    prepareReplacement(d, failure, blockStartLine, blockEndLine,
        overallBlockEndLine(d, blockEndLine + 1, currentIndent, blockEndLine),
        collectPeers(d, blockStartLine, blockEndLine, clickedLineNumber, currentIndent,
                     isNowTicked, [unticked |-> <<>>, ticked |-> <<>>]))

\* Step 1: the peer block boundaries of the clicked list item
sortListItem(d, clickedLineNumber, failure, currentIndent, isNowTicked) ==
    sortPeerBlock(d, clickedLineNumber, failure, currentIndent, isNowTicked,
        scanUp(d, clickedLineNumber - 1, currentIndent, clickedLineNumber),
        scanDown(d, clickedLineNumber + 1, currentIndent, clickedLineNumber))

\* the bug of sorting whatever the effective setting is
sortWhateverSetting(d, clickedLineNumber, failure, fileLevel, marker) ==
    IF ~listItemRegex(getLine(d, clickedLineNumber))
    THEN noSort("notListItem", fileLevel, marker, TRUE)
    ELSE [sortListItem(d, clickedLineNumber, failure,
                       getIndentationLevel(getLine(d, clickedLineNumber)),
                       ~tickedCheckboxRegex(getLine(d, clickedLineNumber)))
          EXCEPT !.fileLevel = fileLevel, !.listMarkerFound = marker,
                 !.effectiveSortingEnabled = effectiveSortingEnabled(fileLevel, marker)]

\* the bug of going on after the warning that the line is not a list item
sortWhateverLine(d, clickedLineNumber, failure, fileLevel, marker) ==
    IF ~effectiveSortingEnabled(fileLevel, marker)
    THEN noSort("disabled", fileLevel, marker, FALSE)
    ELSE [sortListItem(d, clickedLineNumber, failure,
                       getIndentationLevel(getLine(d, clickedLineNumber)),
                       ~tickedCheckboxRegex(getLine(d, clickedLineNumber)))
          EXCEPT !.fileLevel = fileLevel, !.listMarkerFound = marker]

\* the final effective setting check, then the sort logic of the try block
sortIfEnabled(d, clickedLineNumber, failure, fileLevel, marker) ==
    IF ~effectiveSortingEnabled(fileLevel, marker)
    THEN noSort("disabled", fileLevel, marker, FALSE)
    ELSE IF ~listItemRegex(getLine(d, clickedLineNumber))
    THEN noSort("notListItem", fileLevel, marker, TRUE)
    ELSE [sortListItem(d, clickedLineNumber, failure,
                       getIndentationLevel(getLine(d, clickedLineNumber)),
                       ~tickedCheckboxRegex(getLine(d, clickedLineNumber)))
          EXCEPT !.fileLevel = fileLevel, !.listMarkerFound = marker]

\* One run of the click handler on buffer d.  failure names the host call that
\* throws during this run: "none", "read" (a buffer read) or "replace" (the
\* transaction); a call that throws has no effect on the buffer.
sortCheckboxesAroundClick(d, global, fm, clickedLineNumber, failure) ==
    IF failure = "read" THEN noSort("error", global, "null", global)
    ELSE sortIfEnabled(d, clickedLineNumber, failure,
                       fileLevelSortingEnabled(global, fm),
                       listMarkerFound(d, clickedLineNumber - 1))

\* ------------------------------------------------------------ documents
LineMenu ==
    { <<"-", " ", "[", " ", "]", " ", "a">>,
      <<" ", " ", "-", " ", "[", " ", "]", " ", "c">>,
      <<"-", " ">>,
      <<>>,
      enableMarker,
      disableMarker }

InitialDocs == UNION { [1..n -> LineMenu] : n \in 1..MaxLines }

\* ----------------------------------------------------------- behaviour
noClick(op) ==
    [op |-> op, clicked |-> -1, failure |-> "none", before |-> <<>>,
     global |-> TRUE, fm |-> "undefined",
     result |-> noSort("none", TRUE, "null", TRUE)]

Init ==
    /\ doc \in InitialDocs
    /\ enableGlobalCheckboxSort = TRUE
    /\ frontmatter \in FrontmatterValues
    /\ last = noClick("load")

\* the effect of one run of the handler: its changes applied, the run recorded
handled(n, failure, r) ==
    /\ doc' = transaction(doc, r.changes)
    /\ last' = [op |-> "click", clicked |-> n, failure |-> failure, before |-> doc,
                global |-> enableGlobalCheckboxSort, fm |-> frontmatter, result |-> r]
    /\ UNCHANGED <<enableGlobalCheckboxSort, frontmatter>>

\* a click on the checkbox of line n, every host call succeeding
Click(n) ==
    handled(n, "none",
            sortCheckboxesAroundClick(doc, enableGlobalCheckboxSort, frontmatter, n, "none"))

\* a click during which a host call that the run makes throws
failed(n, failure, r) ==
    r.outcome = "error" /\ handled(n, failure, r)

ClickFailing(n, failure) ==
    failed(n, failure,
           sortCheckboxesAroundClick(doc, enableGlobalCheckboxSort, frontmatter, n, failure))

\* the settings tab's toggle 'Enable Checkbox Sorting Globally'
SetGlobalSort(value) ==
    /\ value # enableGlobalCheckboxSort
    /\ enableGlobalCheckboxSort' = value
    /\ last' = noClick("setting")
    /\ UNCHANGED <<doc, frontmatter>>

\* the plugin over a host whose editor calls succeed
Next ==
    \/ \E n \in 0..(Len(doc) - 1) : Click(n)
    \/ \E value \in BOOLEAN : SetGlobalSort(value)

Spec == Init /\ [][Next]_vars

\* the plugin over a host whose editor calls may throw
NextWithFailures ==
    \/ \E n \in 0..(Len(doc) - 1) : Click(n)
    \/ \E n \in 0..(Len(doc) - 1), failure \in {"read", "replace"} : ClickFailing(n, failure)
    \/ \E value \in BOOLEAN : SetGlobalSort(value)

SpecWithFailures == Init /\ [][NextWithFailures]_vars

\* =====================================================================
\* The vocabulary of the properties, stated on the document before the
\* click (last.before) by quantifiers over line numbers, not by the scans.
\* =====================================================================
Before == last.before

Clicked == last.clicked

Result == last.result

LineAt(d, i) == d[i + 1]

LineNumbers(d) == 0..(Len(d) - 1)

\* leading whitespace, a bullet, at least one whitespace character
IsListItem(l) ==
    \E k \in 1..(Len(l) - 1) :
        /\ \A j \in 1..(k - 1) : IsSpace(l[j])
        /\ IsBullet(l[k])
        /\ IsSpace(l[k + 1])

\* the number of leading whitespace characters
Depth(l) == Cardinality({k \in 1..Len(l) : \A j \in 1..k : IsSpace(l[j])})

\* a list item whose checkbox, right after the bullet, is the checked one
IsChecked(l) ==
    \E k \in 1..Len(l), m \in 1..Len(l) :
        /\ k < m /\ m + 3 <= Len(l)
        /\ \A j \in 1..(k - 1) : IsSpace(l[j])
        /\ IsBullet(l[k])
        /\ \A j \in (k + 1)..m : IsSpace(l[j])
        /\ l[m + 1] = "[" /\ l[m + 2] = "x" /\ l[m + 3] = "]"

HasMarker(l) == \E k \in 1..Len(l) : <<l[k]>> \in {enableMarker, disableMarker}

Between(i, j) == IF i <= j THEN i..j ELSE j..i

\* the maximal run around line c of list items at least as deep as line c
Run(d, c) ==
    {i \in LineNumbers(d) :
        \A j \in Between(i, c) :
            IsListItem(LineAt(d, j)) /\ Depth(LineAt(d, j)) >= Depth(LineAt(d, c))}

\* the peers of line c: the lines of its run that are exactly as deep
PeerGroup(d, c) == {i \in Run(d, c) : Depth(LineAt(d, i)) = Depth(LineAt(d, c))}

Least(S) == CHOOSE x \in S : \A y \in S : x <= y

Greatest(S) == CHOOSE x \in S : \A y \in S : x >= y

\* the descendants of peer p: the lines after it, up to the next peer or the run's end
SubtreeEnd(d, c, p) ==
    Greatest({i \in Run(d, c) : i >= p /\ \A j \in (p + 1)..i : j \notin PeerGroup(d, c)})

\* a click that reached the peer loop: enabled, on a list item, every read succeeding
Sorted ==
    /\ last.op = "click"
    /\ Result.outcome \in {"noChange", "replaced"} \/ (Result.outcome = "error" /\ last.failure = "replace")

Rewrote == last.op = "click" /\ Result.outcome = "replaced"

\* the item data in the order of the final text: unticked, then ticked
Written == Result.untickedItemsData \o Result.tickedItemsData

\* the bucket a peer belongs to: the clicked peer by its state after the toggle
ClassifiedChecked(o) ==
    IF o = Clicked THEN ~IsChecked(LineAt(Before, o)) ELSE IsChecked(LineAt(Before, o))

\* ---------------------------------------------------------------- C1
\* C1: on every enabled click on a list item the blocks written back are the
\* clicked line's peers, each once, every peer classified unchecked before
\* every peer classified checked, each bucket in the original order; the
\* clicked peer is classified by the negation of its state before the click,
\* every other peer by its own state; the text written is the blocks' texts
\* concatenated in that order, up to the final newline.
C1_StablePartition ==
    Sorted =>
        /\ {Written[k].originalLine : k \in 1..Len(Written)} = PeerGroup(Before, Clicked)
        /\ \A p, q \in 1..Len(Written) :
             p < q =>
               /\ ~(ClassifiedChecked(Written[p].originalLine)
                      /\ ~ClassifiedChecked(Written[q].originalLine))
               /\ (ClassifiedChecked(Written[p].originalLine)
                      = ClassifiedChecked(Written[q].originalLine)
                   => Written[p].originalLine < Written[q].originalLine)
        /\ Rewrote =>
             LET t == concat([k \in 1..Len(Written) |-> Written[k].text])
                 w == Result.changes[1].text
             IN  w = t \/ w \o <<NL>> = t \/ w = t \o <<NL>>

\* a rewrite that moved the clicked checkbox behind a later peer, with two
\* peers in one bucket
C1_Witness ==
    /\ Rewrote
    /\ includes(LineAt(Before, Clicked), uncheckedBox)
    /\ Len(Written) >= 3
    /\ \E p, q \in 1..Len(Written) :
         p < q /\ Written[p].originalLine > Written[q].originalLine
    /\ \E p, q \in 1..Len(Written) :
         /\ p < q
         /\ ClassifiedChecked(Written[p].originalLine)
         /\ ClassifiedChecked(Written[q].originalLine)

\* ---------------------------------------------------------------- C3
\* the first line and the last line of the region a click replaces
RegionStart == Least(PeerGroup(Before, Clicked))

RegionEnd == Greatest(Run(Before, Clicked))

\* C3: a click leaves every line before the first peer of the clicked line's
\* group and every line after the whole-structure end unchanged in text and in
\* relative position: the lines before keep their line numbers, the lines
\* after keep their distance from the end of the document.
C3_FrameUnchanged ==
    last.op = "click" =>
        IF IsListItem(LineAt(Before, Clicked))
        THEN /\ \A i \in 0..(RegionStart - 1) :
                  i < Len(doc) /\ LineAt(doc, i) = LineAt(Before, i)
             /\ \A i \in (RegionEnd + 1)..(Len(Before) - 1) :
                  /\ i + Len(doc) - Len(Before) > RegionStart
                  /\ LineAt(doc, i + Len(doc) - Len(Before)) = LineAt(Before, i)
        ELSE doc = Before

\* a rewrite of a region that has a line before it and a line after it
C3_Witness ==
    /\ Rewrote
    /\ RegionStart > 0
    /\ RegionEnd < Len(Before) - 1
    /\ doc # Before

\* ---------------------------------------------------------------- C10
\* C10: the peers a click reorders are exactly the list items as deep as the
\* clicked line inside the maximal run around it of list items at least as
\* deep; the scans end at the first and the last of them, so an item of the
\* same depth beyond a shallower item or a non-list line is not among them
\* and keeps its place.
C10_PeerGroupBoundaries ==
    Sorted =>
        /\ Result.blockStartLine = Least(PeerGroup(Before, Clicked))
        /\ Result.blockEndLine = Greatest(PeerGroup(Before, Clicked))
        /\ {Written[k].originalLine : k \in 1..Len(Written)} = PeerGroup(Before, Clicked)
        /\ \A i \in LineNumbers(Before) \ Run(Before, Clicked) :
             /\ \A k \in 1..Len(Written) : Written[k].originalLine # i
             /\ i > Clicked => Len(doc) = Len(Before)
             /\ LineAt(doc, i) = LineAt(Before, i)

\* a rewrite of nested peers while a line as deep as the clicked one lies
\* beyond a shallower item, and a deeper line was skipped by the upward scan
C10_Witness ==
    /\ Rewrote
    /\ \E i \in LineNumbers(Before) \ Run(Before, Clicked) :
         /\ IsListItem(LineAt(Before, i))
         /\ Depth(LineAt(Before, i)) = Depth(LineAt(Before, Clicked))
    /\ \E i \in LineNumbers(Before) :
         IsListItem(LineAt(Before, i)) /\ Depth(LineAt(Before, i)) < Depth(LineAt(Before, Clicked))

\* ---------------------------------------------------------------- C7
\* C7: when the replaced region ends at the last line of the document the
\* replacement text has no trailing newline and the document gets no trailing
\* blank line; when it ends earlier the text ends with exactly one newline and
\* the line following the region stays the same separate line.
C7_TrailingNewline ==
    Rewrote =>
        LET w == Result.changes[1].text
        IN  IF RegionEnd = Len(Before) - 1
            THEN /\ ~endsWithNewline(w)
                 /\ Len(doc) <= Len(Before)
                 /\ doc[Len(doc)] # <<>>
            ELSE /\ endsWithNewline(w)
                 /\ ~endsWithNewline(SubSeq(w, 1, Len(w) - 1))
                 /\ Len(doc) = Len(Before)
                 /\ LineAt(doc, RegionEnd + 1) = LineAt(Before, RegionEnd + 1)

\* a rewrite up to the last line whose final block is not the block that held
\* the last line, so that the final text ended with a newline to take off
C7_Witness ==
    /\ Rewrote
    /\ RegionEnd = Len(Before) - 1
    /\ Written[Len(Written)].originalLine # Result.blockEndLine
    /\ includes(LineAt(Before, Clicked), uncheckedBox)

\* ---------------------------------------------------------------- C4
\* C4: whenever the effective configuration of a click is false, whether by
\* the list marker, by the document override or by the global default, the
\* click issues no replacement and leaves the document as it was.
C4_DisabledShortCircuit ==
    (/\ last.op = "click"
     /\ last.failure = "none"
     /\ \/ Result.listMarkerFound = "false"
        \/ Result.listMarkerFound = "null" /\ frontmatter = "false"
        \/ /\ Result.listMarkerFound = "null"
           /\ frontmatter \notin {"true", "false"}
           /\ ~enableGlobalCheckboxSort)
    => /\ Result.outcome = "disabled"
       /\ Result.changes = <<>>
       /\ doc = Before

\* a click on an unchecked checkbox, disabled by a marker over two enabling
\* lower layers
C4_Witness ==
    /\ last.op = "click"
    /\ Result.outcome = "disabled"
    /\ Result.listMarkerFound = "false"
    /\ enableGlobalCheckboxSort
    /\ frontmatter = "true"
    /\ includes(LineAt(Before, Clicked), uncheckedBox)

\* ---------------------------------------------------------------- C8
\* the text of lines i..j of d, each followed by a newline
RECURSIVE LinesText(_, _, _)
LinesText(d, i, j) ==
    IF i > j THEN <<>> ELSE LineAt(d, i) \o <<NL>> \o LinesText(d, i + 1, j)

\* C8: a click issues no replacement or exactly one, over the whole range from
\* the first peer to the whole-structure end, and the document is then either
\* as before or the old text with that range replaced by the new text; a
\* click on a line that is no list item, or during which a host call throws,
\* issues none and leaves the document as it was.
C8_FailSafe ==
    last.op = "click" =>
        /\ (~IsListItem(LineAt(Before, Clicked)) \/ last.failure # "none") =>
             Result.changes = <<>> /\ doc = Before
        /\ Len(Result.changes) <= 1
        /\ Result.changes = <<>> => doc = Before
        /\ Result.changes # <<>> =>
             LET ch == Result.changes[1]
             IN  /\ ch.from = [line |-> RegionStart, ch |-> 0]
                 /\ ch.to = IF RegionEnd = Len(Before) - 1
                            THEN [line |-> RegionEnd, ch |-> Len(LineAt(Before, RegionEnd))]
                            ELSE [line |-> RegionEnd + 1, ch |-> 0]
                 /\ docText(doc) = LinesText(Before, 0, RegionStart - 1) \o ch.text
                                     \o join(SubSeq(Before, RegionEnd + 2, Len(Before)))

\* a click whose transaction threw: the text to write differed, nothing was written
C8_Witness ==
    /\ last.op = "click"
    /\ last.failure = "replace"
    /\ Result.outcome = "error"
    /\ Len(Written) >= 2
    /\ doc = Before

\* ---------------------------------------------------------------- C9
\* the current text of the range a click would replace
RangeText ==
    IF RegionEnd = Len(Before) - 1
    THEN join(SubSeq(Before, RegionStart + 1, RegionEnd + 1))
    ELSE LinesText(Before, RegionStart, RegionEnd)

\* equal apart from one trailing newline
SameUpToNewline(s, t) == s = t \/ s \o <<NL>> = t \/ s = t \o <<NL>>

Flipped(l) ==
    IF IsChecked(l) THEN replace(l, checkedBox, uncheckedBox)
                    ELSE replace(l, uncheckedBox, checkedBox)

\* the lines of peer o and its descendants, the clicked first line flipped
BlockLines(o) ==
    <<IF o = Clicked THEN Flipped(LineAt(Before, o)) ELSE LineAt(Before, o)>>
      \o SubSeq(Before, o + 2, SubtreeEnd(Before, Clicked, o) + 1)

RECURSIVE BlocksFrom(_)
BlocksFrom(k) ==
    IF k > Len(Written) THEN <<>>
    ELSE BlockLines(Written[k].originalLine) \o BlocksFrom(k + 1)

\* C2: after a rewrite every peer's descendant lines stand right after that
\* peer, the same lines in the same order with the same text, and the only
\* line of the region whose text differs is the first line of the clicked
\* item, whose checkbox is flipped.
C2_SubtreeAtomicity ==
    Rewrote =>
        doc = SubSeq(Before, 1, RegionStart) \o BlocksFrom(1)
                \o SubSeq(Before, RegionEnd + 2, Len(Before))

\* ---------------------------------------------------------------- C5
\* the first line of the uninterrupted list block around the clicked line
ListBlockStart ==
    Least({i \in 0..Clicked : \A j \in i..Clicked : IsListItem(LineAt(Before, j))})

\* C5: the effective setting of a click is the value of the marker the upward
\* scan found, else the document override when it is a boolean, else the
\* global default; in particular a global default of true, an override of
\* false and an enable marker immediately above the list block give enabled.
C5_Precedence ==
    (last.op = "click" /\ last.failure # "read") =>
        /\ Result.effectiveSortingEnabled =
             IF Result.listMarkerFound # "null" THEN Result.listMarkerFound = "true"
             ELSE IF last.fm \in {"true", "false"} THEN last.fm = "true"
             ELSE last.global
        /\ (/\ last.global
            /\ last.fm = "false"
            /\ IsListItem(LineAt(Before, Clicked))
            /\ ListBlockStart > 0
            /\ includes(LineAt(Before, ListBlockStart - 1), enableMarker))
           => Result.effectiveSortingEnabled

\* ---------------------------------------------------------------- C6
\* the marker lines above the clicked line with nothing but list items between
GoverningMarkers ==
    {m \in 0..(Clicked - 1) :
        /\ HasMarker(LineAt(Before, m))
        /\ \A j \in (m + 1)..(Clicked - 1) :
             IsListItem(LineAt(Before, j)) /\ ~HasMarker(LineAt(Before, j))}

\* C6: a marker governs a click exactly when it stands above the clicked line
\* with only list items between; the nearest such marker decides, and a
\* marker separated from the clicked line by a line that is no list item, or
\* no marker at all, leaves the decision to the lower layers.
C6_MarkerScope ==
    (last.op = "click" /\ last.failure # "read" /\ IsListItem(LineAt(Before, Clicked))) =>
        Result.listMarkerFound =
            IF GoverningMarkers = {} THEN "null"
            ELSE IF includes(LineAt(Before, Greatest(GoverningMarkers)), enableMarker)
                 THEN "true" ELSE "false"

\* ---------------------------------------------------------------- C11
\* a line with its checkbox, if checked, taken back to the unchecked one
Unchecked(l) == IF IsChecked(l) THEN replace(l, checkedBox, uncheckedBox) ELSE l

\* how many lines of d are line l up to checkbox state
Occurrences(d, l) == Cardinality({i \in 1..Len(d) : Unchecked(d[i]) = Unchecked(l)})

\* C11: a click on a checkbox leaves the document with the same number of
\* lines and the same collection of lines up to checkbox state: no line is
\* merged into another, dropped, duplicated or added, whichever peer block
\* ends up last in the rewritten region.
C11_LineConservation ==
    (/\ last.op = "click"
     /\ \/ includes(LineAt(Before, Clicked), uncheckedBox)
        \/ includes(LineAt(Before, Clicked), checkedBox))
    => /\ Len(doc) = Len(Before)
       /\ \A i \in 1..Len(Before) :
            Occurrences(doc, Before[i]) = Occurrences(Before, Before[i])

\* ---------------------------------------------------------------- C12
\* the lines the peer loop takes for the peer at line o: the peer and the
\* lines its subtree scan (indent > base) accepts
PeerRange(o) ==
    o..peerTreeEndLine(Before, o + 1, getIndentationLevel(LineAt(Before, o)), o)

NotNewline(c) == c # NL

\* C12: for every click on a list item the subtree ranges of the peers are
\* pairwise disjoint and their union is exactly the range from the first peer
\* to the whole-structure end, which is the end of the last peer's subtree
\* and the end of the clicked line's run; every line of the deleted range is
\* in exactly one inserted block, and the inserted text has, newlines aside,
\* as many characters as the deleted range.
C12_RangeCoveredByPeerBlocks ==
    Sorted =>
        /\ \A j, k \in 1..Len(Written) :
             j # k => PeerRange(Written[j].originalLine)
                        \cap PeerRange(Written[k].originalLine) = {}
        /\ UNION {PeerRange(Written[k].originalLine) : k \in 1..Len(Written)}
             = Result.blockStartLine..Result.overallBlockEndLine
        /\ Result.overallBlockEndLine = Greatest(PeerRange(Result.blockEndLine))
        /\ Result.blockStartLine = RegionStart
        /\ Result.overallBlockEndLine = RegionEnd
        /\ Len(SelectSeq(Result.textToInsert, NotNewline))
             = Len(SelectSeq(RangeText, NotNewline))
        /\ Rewrote =>
             /\ Result.changes[1].from.line = Result.blockStartLine
             /\ Result.changes[1].to.line \in
                  {Result.overallBlockEndLine, Result.overallBlockEndLine + 1}

\* a rewrite of two peers or more whose last peer has descendants
C12_Witness ==
    /\ Rewrote
    /\ Len(Written) >= 2
    /\ Result.overallBlockEndLine > Result.blockEndLine
    /\ includes(LineAt(Before, Clicked), uncheckedBox)

====
